---- MODULE Spec2Model ----
(***************************************************************************)
(* State-machine model of src/server.js: the blog CRUD handlers, the       *)
(* contact-form handler and the error middleware of the ImpexInfo server.  *)
(*                                                                         *)
(* A request is carried by a connection r.  A handler runs atomically from *)
(* one await to the next (single-threaded cooperative scheduling), so one  *)
(* action is one such segment: the arrival of the request together with    *)
(* the resolution of its first store query, then one action per further    *)
(* awaited store or mail-relay call.  The segment that ends a handler      *)
(* records the exchange (request, response, mail calls) in last.           *)
(***************************************************************************)
EXTENDS Integers, Sequences, FiniteSets, TLC

(***************************************************************************)
(* Bounds of the model.                                                    *)
(***************************************************************************)
MaxBlogs  == 1     \* records ever created, where single records are examined
MaxListed == 2     \* records ever created, where listings are examined
MaxTime   == 1     \* last value of the millisecond clock, where it runs
MaxChains == 2     \* connect attempts in flight or scheduled at a time
ProbeSpan == 2     \* ports examined, counted down from the last port

Conns == {"c1", "c2"}          \* connections carrying one request at a time

(***************************************************************************)
(* Strings.  A string is modelled by its leading whitespace count, its     *)
(* core (the text between the first and last non-blank character, named by *)
(* a label and a length) and its trailing whitespace count, so that        *)
(* trimming, emptiness and length are computed as the code computes them.  *)
(***************************************************************************)
Str(core, len) == [lead |-> 0, core |-> core, len |-> len, trail |-> 0]
Padded(s)      == [s EXCEPT !.lead = 1, !.trail = 1]
EmptyStr       == Str("", 0)
Blank          == Padded(EmptyStr)

StrLen(s) == s.lead + s.len + s.trail

\* JavaScript truthiness of a string value: only "" is falsy
Truthy(s) == StrLen(s) > 0

\* a body is a JSON object: a function from the keys present to their values
Has(obj, k)  == k \in DOMAIN obj
\* !obj.k in JavaScript: the key is absent (undefined) or its value is ""
Falsy(obj, k) == ~Has(obj, k) \/ ~Truthy(obj[k])

\* (variant: the setter leaves the value as it is)
NoTrim(s) == s

\* String.prototype.trim, applied by the schema's `trim: true` setter
Trim(s) == IF s.len = 0 THEN EmptyStr ELSE [s EXCEPT !.lead = 0, !.trail = 0]

(***************************************************************************)
(* BlogSchema                                                              *)
(***************************************************************************)
Published == Str("published", 9)
Draft     == Str("draft", 5)

TitleMaxLength == 100

Paths         == {"title", "description", "category", "imageUrl", "status"}
RequiredPaths == {"title", "description", "category", "imageUrl"}
TrimPaths     == {"title", "description", "category", "imageUrl"}
StatusEnum    == {Published, Draft}
StatusDefault == Draft

RequiredMessage(p) ==
    CASE p = "title"       -> "Blog title is required"
      [] p = "description" -> "Blog description is required"
      [] p = "category"    -> "Blog category is required"
      [] p = "imageUrl"    -> "Blog image URL is required"

\* schema casting of a plain object: unknown keys are dropped (strict mode),
\* setters (trim) are applied to the paths that declare them
CastFields(obj) ==
    [p \in (DOMAIN obj) \cap Paths |->
        IF p \in TrimPaths THEN Trim(obj[p]) ELSE obj[p]]

\* schema defaults, applied when a document is constructed or hydrated
ApplyDefaults(f) ==
    [p \in (DOMAIN f) \cup {"status"} |->
        IF p \in DOMAIN f THEN f[p] ELSE StatusDefault]

\* validators of one path that has value v; the required validator on a
\* string rejects the empty string
PathMessages(p, v) ==
    (IF p \in RequiredPaths /\ StrLen(v) = 0 THEN {RequiredMessage(p)} ELSE {})
    \cup (IF p = "title" /\ StrLen(v) > TitleMaxLength
          THEN {"Title cannot be more than 100 characters"} ELSE {})
    \cup (IF p = "status" /\ v \notin StatusEnum
          THEN {"status is not a valid enum value"} ELSE {})

\* document validation (Blog.create): every required path must be present
ValidateDoc(f) ==
    UNION {PathMessages(p, f[p]) : p \in DOMAIN f}
    \cup {RequiredMessage(p) : p \in RequiredPaths \ DOMAIN f}

\* update validation (runValidators: true): only the paths the update sets
\* or unsets are validated; unsetting a required path fails
ValidateUpdate(set, unset) ==
    UNION {PathMessages(p, set[p]) : p \in DOMAIN set}
    \cup {RequiredMessage(p) : p \in (unset \cap RequiredPaths)}

(***************************************************************************)
(* Identifiers.  wf says whether the text is in the store's identifier     *)
(* format (an ObjectId); n distinguishes identifiers.                      *)
(***************************************************************************)
ObjectId(n) == [wf |-> TRUE, n |-> n]
BadId       == [wf |-> FALSE, n |-> 0]
ReqIds(max) == {ObjectId(n) : n \in 1..max} \cup {BadId}

(***************************************************************************)
(* Responses.  sent counts the responses written for the request;          *)
(* status starts as res.statusCode does, at 200.                           *)
(***************************************************************************)
NoRes ==
    [sent |-> 0, status |-> 200, success |-> FALSE, error |-> "",
     messages |-> {}, shape |-> "none", docs |-> <<>>, count |-> 0]

\* res.status(code).json({success, error | data ...})
Json(res, code, success, error, messages, shape, docs) ==
    [sent |-> res.sent + 1, status |-> code, success |-> success,
     error |-> error, messages |-> messages, shape |-> shape, docs |-> docs,
     count |-> 0]

\* res.status(200).json({success: true, count: blogs.length, data: blogs})
JsonList(res, blogs) ==
    [Json(res, 200, TRUE, "", {}, "list", blogs) EXCEPT !.count = Len(blogs)]

Fail(res, code, error) == Json(res, code, FALSE, error, {}, "none", <<>>)

NotFoundMsg      == "Blog not found"
InvalidIdMsg     == "Invalid blog ID format"
MissingFieldsMsg == "Please provide title, description, category, status, and imageUrl"
InvalidStatusMsg == "Status must be either \"published\" or \"draft\""
ContactMissingMsg == "Please provide name, email and message"
ContactSuccessMsg == "Your message has been sent successfully!"

\* the error middleware: reuses a non-default status, otherwise 500
errorHandler(err, res) ==
    Json(res, IF res.status = 200 THEN 500 ELSE res.status, FALSE, err, {},
         "none", <<>>)

(***************************************************************************)
(* The document store (the Blog model).  A stored document has the schema  *)
(* paths it holds (f), and the timestamps the store maintains.             *)
(***************************************************************************)
Ok(docs)   == [err |-> "", messages |-> {}, docs |-> docs]
Throw(err) == [err |-> err, messages |-> {}, docs |-> <<>>]
Invalid(messages) == [err |-> "ValidationError", messages |-> messages, docs |-> <<>>]

\* what a read returns: the stored document with schema defaults applied
Hydrate(d) == [d EXCEPT !.f = ApplyDefaults(d.f)]

\* casting of an identifier to the store's format
castObjectId(id) == id.wf

\* Blog.findById(id): the identifier is cast before the store is queried
findById(st, id, down) ==
    IF ~castObjectId(id) THEN Throw("CastError")
    ELSE IF down THEN Throw("MongoNetworkError")
    ELSE IF id \in DOMAIN st THEN Ok(<<Hydrate(st[id])>>)
    ELSE Ok(<<>>)

\* a stored document matches a filter when every filter path equals
Matches(d, filter) ==
    \A p \in DOMAIN filter : p \in DOMAIN d.f /\ d.f[p] = filter[p]

\* (variant: .sort({ createdAt: 1 }))
SortCreatedAtAsc(S) ==
    {s \in [1..Cardinality(S) -> S] :
        /\ \A i, j \in 1..Cardinality(S) : i # j => s[i] # s[j]
        /\ ~ \E i, j \in 1..Cardinality(S) :
                i < j /\ s[j].createdAt < s[i].createdAt}

\* .sort({ createdAt: -1 }): every ordering of the documents in which no
\* document comes before one created later (ties are in no defined order)
SortCreatedAtDesc(S) ==
    {s \in [1..Cardinality(S) -> S] :
        /\ \A i, j \in 1..Cardinality(S) : i # j => s[i] # s[j]
        /\ ~ \E i, j \in 1..Cardinality(S) :
                i < j /\ s[j].createdAt > s[i].createdAt}

\* Blog.find(filter).sort({ createdAt: -1 }): the possible results
find(st, filter, down) ==
    IF down THEN {Throw("MongoNetworkError")}
    ELSE {Ok([i \in DOMAIN s |-> Hydrate(s[i])]) :
            s \in SortCreatedAtDesc({st[id] : id \in {x \in DOMAIN st : Matches(st[x], filter)}})}

(***************************************************************************)
(* Blog controller.  Each operator is one segment of a handler and yields  *)
(* the response written (res, with sent = 0 when none is written yet), the *)
(* store after the segment and where the handler continues.                *)
(***************************************************************************)
Reply(res, st)     == [res |-> res, store |-> st, pc |-> "idle"]
Await(at, st)      == [res |-> NoRes, store |-> st, pc |-> at]

\* getBlogs: the filter takes the query fields that are truthy
BuildFilter(query) ==
    [p \in {q \in {"status", "category"} : ~Falsy(query, q)} |-> query[p]]

getBlogs(st, query, down) ==
    {IF q.err = ""
        THEN Reply(JsonList(NoRes, q.docs), st)
        ELSE Reply(errorHandler(q.err, NoRes), st)
     : q \in find(st, BuildFilter(query), down)}

\* (variant: the catch block has no CastError branch)
getBlogNoCastBranch(st, id, down) ==
    LET q == findById(st, id, down) IN
    IF q.err = "" THEN
        IF q.docs = <<>>
            THEN Reply(Fail(NoRes, 404, NotFoundMsg), st)
            ELSE Reply(Json(NoRes, 200, TRUE, "", {}, "doc", q.docs), st)
    ELSE Reply(errorHandler(q.err, NoRes), st)

\* (variant: the CastError branch of the catch block does not return)
getBlogFallThrough(st, id, down) ==
    LET q == findById(st, id, down) IN
    IF q.err = "" THEN
        IF q.docs = <<>>
            THEN Reply(Fail(NoRes, 404, NotFoundMsg), st)
            ELSE Reply(Json(NoRes, 200, TRUE, "", {}, "doc", q.docs), st)
    ELSE IF q.err = "CastError"
        THEN Reply(errorHandler(q.err, Fail(NoRes, 400, InvalidIdMsg)), st)
    ELSE Reply(errorHandler(q.err, NoRes), st)

getBlog(st, id, down) ==
    LET q == findById(st, id, down) IN
    IF q.err = "" THEN
        IF q.docs = <<>>
            THEN Reply(Fail(NoRes, 404, NotFoundMsg), st)
            ELSE Reply(Json(NoRes, 200, TRUE, "", {}, "doc", q.docs), st)
    ELSE IF q.err = "CastError"
        THEN Reply(Fail(NoRes, 400, InvalidIdMsg), st)
    ELSE Reply(errorHandler(q.err, NoRes), st)

\* the required-field check of createBlog
MissingBlogFields(body) == \E p \in Paths : Falsy(body, p)

\* (variant: the handler does not check the status)
BadStatusUnchecked(body) == FALSE

\* the status check of createBlog
BadStatus(body) == body["status"] # Published /\ body["status"] # Draft

\* Blog.create(body): cast, default, validate, then insert under a fresh
\* identifier with both timestamps set to the current time
create(st, n, t, body, down) ==
    LET f    == ApplyDefaults(CastFields(body))
        msgs == ValidateDoc(f)
        id   == ObjectId(n + 1)
        d    == [id |-> id, f |-> f, createdAt |-> t, updatedAt |-> t]
    IN  IF msgs # {} THEN [q |-> Invalid(msgs), store |-> st]
        ELSE IF down THEN [q |-> Throw("MongoNetworkError"), store |-> st]
        ELSE [q |-> Ok(<<d>>), store |-> (id :> d) @@ st]

createBlog(st, n, t, body, down) ==
    IF MissingBlogFields(body)
        THEN Reply(Fail(NoRes, 400, MissingFieldsMsg), st)
    ELSE IF BadStatus(body)
        THEN Reply(Fail(NoRes, 400, InvalidStatusMsg), st)
    ELSE LET c == create(st, n, t, body, down) IN
        IF c.q.err = ""
            THEN Reply(Json(NoRes, 201, TRUE, "", {}, "doc", c.q.docs), c.store)
        ELSE IF c.q.err = "ValidationError"
            THEN Reply(Json(NoRes, 400, FALSE, "", c.q.messages, "none", <<>>), st)
        ELSE Reply(errorHandler(c.q.err, NoRes), st)

\* (variant: the handler does not check that the record exists)
findFirstUnchecked(st, id, down, next) ==
    LET q == findById(st, id, down) IN
    IF q.err = "" THEN Await(next, st)
    ELSE IF q.err = "CastError"
        THEN Reply(Fail(NoRes, 400, InvalidIdMsg), st)
    ELSE Reply(errorHandler(q.err, NoRes), st)

\* updateBlog and deleteBlog up to the result of their existence check
\* (Blog.findById), continuing at `next` when the record exists
findFirst(st, id, down, next) ==
    LET q == findById(st, id, down) IN
    IF q.err = "" THEN
        IF q.docs = <<>>
            THEN Reply(Fail(NoRes, 404, NotFoundMsg), st)
            ELSE Await(next, st)
    ELSE IF q.err = "CastError"
        THEN Reply(Fail(NoRes, 400, InvalidIdMsg), st)
    ELSE Reply(errorHandler(q.err, NoRes), st)

\* Blog.findByIdAndUpdate(id, body, {new: true, runValidators: true}):
\* top-level keys are set, the keys under $unset are removed; the update is
\* validated before it is sent; the result is the updated document, or
\* null when no document has the identifier
findByIdAndUpdate(st, t, id, update, down) ==
    LET set   == CastFields(update.set)
        unset == update.unset \cap Paths
        msgs  == ValidateUpdate(set, unset)
    IN  IF msgs # {} THEN [q |-> Invalid(msgs), store |-> st]
        ELSE IF down THEN [q |-> Throw("MongoNetworkError"), store |-> st]
        ELSE IF id \notin DOMAIN st THEN [q |-> Ok(<<>>), store |-> st]
        ELSE LET old == st[id]
                 f   == [p \in ((DOMAIN old.f) \cup (DOMAIN set)) \ unset |->
                            IF p \in DOMAIN set THEN set[p] ELSE old.f[p]]
                 d   == [old EXCEPT !.f = f, !.updatedAt = t]
             IN [q |-> Ok(<<Hydrate(d)>>), store |-> [st EXCEPT ![id] = d]]

\* updateBlog from the result of Blog.findByIdAndUpdate on
updateBlogWrite(rs, st, t, id, update, down) ==
    LET u == findByIdAndUpdate(st, t, id, update, down) IN
    IF u.q.err = ""
        THEN Reply(Json(rs, 200, TRUE, "", {},
                        IF u.q.docs = <<>> THEN "null" ELSE "doc", u.q.docs),
                   u.store)
    ELSE IF u.q.err = "CastError"
        THEN Reply(Fail(rs, 400, InvalidIdMsg), st)
    ELSE IF u.q.err = "ValidationError"
        THEN Reply(Json(rs, 400, FALSE, "", u.q.messages, "none", <<>>), st)
    ELSE Reply(errorHandler(u.q.err, rs), st)

\* blog.deleteOne(): removes the document with the identifier, if any
deleteOne(st, id, down) ==
    IF down THEN [q |-> Throw("MongoNetworkError"), store |-> st]
    ELSE [q |-> Ok(<<>>),
          store |-> [x \in (DOMAIN st) \ {id} |-> st[x]]]

\* deleteBlog from the result of blog.deleteOne() on
deleteBlogWrite(rs, st, id, down) ==
    LET x == deleteOne(st, id, down) IN
    IF x.q.err = ""
        THEN Reply(Json(rs, 200, TRUE, "", {}, "empty", <<>>), x.store)
    ELSE IF x.q.err = "CastError"
        THEN Reply(Fail(rs, 400, InvalidIdMsg), st)
    ELSE Reply(errorHandler(x.q.err, rs), st)

(***************************************************************************)
(* Contact controller.  mail is what the request has done with the mail    *)
(* relay: whether a transporter was created and whether it pools its       *)
(* connections, the sendMail calls made, each with its recipient and       *)
(* outcome, and the connections to the relay that are open.                *)
(***************************************************************************)
NoMail == [transport |-> FALSE, pool |-> FALSE, sends |-> <<>>, open |-> 0]

\* (variant: phone is required too)
MissingContactFieldsWithPhone(body) ==
    Falsy(body, "name") \/ Falsy(body, "email") \/ Falsy(body, "message")
        \/ Falsy(body, "phone")

\* the required-field check of submitContactForm
MissingContactFields(body) ==
    Falsy(body, "name") \/ Falsy(body, "email") \/ Falsy(body, "message")

\* (variant: the transporter is created with pool: true)
createTransportPooled(m) == [m EXCEPT !.transport = TRUE, !.pool = TRUE]

\* nodemailer.createTransport(...): the options name no pool, and creating
\* the transporter opens no connection
createTransport(m) == [m EXCEPT !.transport = TRUE, !.pool = FALSE]

\* transporter.sendMail(options) has settled: its outcome is recorded.  A
\* transporter without a pool opens a connection for the message and
\* closes it when the message is sent or has failed; a pooled one keeps its
\* connection open until transporter.close(), which the handler never calls
sendMail(m, to, ok) ==
    [m EXCEPT !.sends = Append(@, [to |-> to, ok |-> ok]),
              !.open  = IF m.pool THEN 1 ELSE @]

\* submitContactForm up to the first sendMail
submitContactForm(body) ==
    IF MissingContactFields(body)
        THEN [res |-> Fail(NoRes, 400, ContactMissingMsg), mail |-> NoMail,
              pc |-> "idle"]
        ELSE [res |-> NoRes, mail |-> createTransport(NoMail),
              pc |-> "sendingUser"]

\* the user-confirmation send has settled: a failure is logged and the
\* handler goes on to the admin-notification send
userMailSettled(rs, m, ok) ==
    [res |-> rs, mail |-> sendMail(m, "user", ok), pc |-> "sendingAdmin"]

\* (variant: success is answered only when both sends succeeded)
adminMailSettledBoth(rs, m, ok) ==
    [res  |-> IF ok /\ \A i \in DOMAIN m.sends : m.sends[i].ok
                    THEN Json(rs, 200, TRUE, ContactSuccessMsg, {}, "none", <<>>)
                    ELSE errorHandler("MailTransportError", rs),
     mail |-> sendMail(m, "admin", ok),
     pc   |-> "idle"]

\* the admin-notification send has settled: success is answered, a failure
\* is re-thrown to the outer catch, which forwards it to the error middleware
adminMailSettled(rs, m, ok) ==
    [res  |-> IF ok THEN Json(rs, 200, TRUE, ContactSuccessMsg, {}, "none", <<>>)
                    ELSE errorHandler("MailTransportError", rs),
     mail |-> sendMail(m, "admin", ok),
     pc   |-> "idle"]

(***************************************************************************)
(* Startup and store connectivity.  Time is counted in seconds.  A port    *)
(* is a number; the ports examined are the last ProbeSpan of the range.    *)
(***************************************************************************)
RetryDelay  == 5        \* setTimeout(ConnectDB, 5000)
DefaultPort == 8000
MaxPort     == 65535
ProbedPorts == (MaxPort - ProbeSpan + 1)..MaxPort

\* verifyEmailServer: the flag and the value returned, given whether
\* transporter.verify() resolved
verifyEmailServer(ok) == [emailServerStatus |-> ok, returns |-> ok]

\* (variant: a failed attempt is not retried)
ConnectDBGivesUp(ok, ts) ==
    IF ok THEN [dbStatus |-> TRUE,  timers |-> ts, returns |-> TRUE]
          ELSE [dbStatus |-> FALSE, timers |-> ts, returns |-> FALSE]

\* ConnectDB from the settling of mongoose.connect on: the flag, the pending
\* timers and the value returned
ConnectDB(ok, ts) ==
    IF ok THEN [dbStatus |-> TRUE,  timers |-> ts, returns |-> TRUE]
          ELSE [dbStatus |-> FALSE, timers |-> Append(ts, RetryDelay),
                returns |-> FALSE]

\* parseInt(PORT) || 8000
initialPort(configured) == IF configured # 0 THEN configured ELSE DefaultPort

\* the outcomes app.listen(p) can have
ListenOutcomes(p, used) ==
    IF p \in used THEN {"EADDRINUSE"} ELSE {"listening", "EACCES"}

\* (variant: the probe goes on past the last port)
tryPortPastEnd(p, outcome) ==
    IF outcome = "listening"
        THEN [startup |-> "listening", port |-> p, exitCode |-> 0]
    ELSE IF outcome = "EADDRINUSE"
        THEN IF p <= MaxPort
                THEN [startup |-> "binding", port |-> p + 1, exitCode |-> 0]
                ELSE [startup |-> "exited", port |-> p, exitCode |-> 1]
    ELSE [startup |-> "exited", port |-> p, exitCode |-> 1]

\* tryPort(p) from the outcome of app.listen(p) on: where startup stands,
\* the port of the latest tryPort call and the exit code
tryPort(p, outcome) ==
    IF outcome = "listening"
        THEN [startup |-> "listening", port |-> p, exitCode |-> 0]
    ELSE IF outcome = "EADDRINUSE"
        THEN IF p < MaxPort
                THEN [startup |-> "binding", port |-> p + 1, exitCode |-> 0]
                ELSE [startup |-> "exited", port |-> p, exitCode |-> 1]
    ELSE [startup |-> "exited", port |-> p, exitCode |-> 1]

\* the body of the response of GET /api/status
NoStatus == [success |-> FALSE, connected |-> FALSE, ready |-> FALSE,
             status |-> "", port |-> 0]
statusReport(db, email, configured) ==
    [success |-> TRUE, connected |-> db, ready |-> email,
     status |-> "running", port |-> configured]

\* what the process did last: a step of startup, a connect attempt settled,
\* a timer, a driver event or a status response
Event(kind, ok, report) == [kind |-> kind, ok |-> ok, report |-> report]
NoEvent == Event("none", FALSE, NoStatus)

(***************************************************************************)
(* Requests the clients send.                                              *)
(***************************************************************************)
EmptyObj == [p \in {} |-> EmptyStr]

ValidBlog ==
    [title |-> Str("A", 1), description |-> Str("B", 1),
     category |-> Str("C", 1), imageUrl |-> Str("U", 1), status |-> Draft]
Archived == Str("archived", 8)

\* bodies of Create requests: the valid ones, and one for each way of
\* being rejected
PaddedBlog  == [ValidBlog EXCEPT !.title = Padded(Str("A", 1))]
ValidBlogK  == [ValidBlog EXCEPT !.status = Published, !.category = Str("K", 1)]
RejectedBodies ==
    { [ValidBlog EXCEPT !.title = Str("L", TitleMaxLength + 1)],
      [ValidBlog EXCEPT !.description = Blank],
      [ValidBlog EXCEPT !.status = Archived],
      [ValidBlog EXCEPT !.status = EmptyStr],
      [status |-> Archived] }
CreateBodies == {ValidBlog, PaddedBlog} \cup RejectedBodies
PathBodies ==
    { ValidBlog,
      [ValidBlog EXCEPT !.description = Blank],
      [ValidBlog EXCEPT !.status = Archived],
      [status |-> Archived] }
ListedBodies == {ValidBlog, ValidBlogK}

\* an update body: its top-level keys, and the keys under its $unset key
UpdateBodies ==
    { [set |-> [status |-> Published], unset |-> {}],
      [set |-> EmptyObj, unset |-> {"status"}],
      [set |-> [status |-> Archived], unset |-> {}],
      [set |-> [title |-> Blank], unset |-> {}] }

PathUpdates ==
    { [set |-> [status |-> Published], unset |-> {}],
      [set |-> [status |-> Archived], unset |-> {}] }

Queries ==
    { EmptyObj,
      [status |-> Draft],
      [status |-> Published],
      [status |-> EmptyStr],
      [category |-> Str("C", 1)],
      [status |-> Draft, category |-> Str("K", 1)],
      [status |-> Published, category |-> Str("K", 1)] }

ContactKeys   == {"name", "email", "phone", "message"}
ContactBodies ==
    {[k \in K |-> Str("x", 1)] : K \in SUBSET ContactKeys}
    \cup {[name |-> Str("x", 1), email |-> Str("x", 1), message |-> EmptyStr]}
FullContact == [k \in ContactKeys |-> Str("x", 1)]

(***************************************************************************)
(* State                                                                   *)
(***************************************************************************)
VARIABLES
    store,      \* the collection: identifier -> stored document
    nextId,     \* number of identifiers the store has assigned
    now,        \* the clock
    pc,         \* per connection: where its request's handler is
    req,        \* per connection: the request being handled
    res,        \* per connection: the response object of that request
    mail,       \* per connection: the mail-relay calls of its request
    last,       \* the exchange completed last: request, response, mail calls
    origin,     \* per created identifier: the body its Create submitted
    pristine,   \* identifiers with no Update or Delete write since creation
    emailServerStatus,  \* the flag set by verifyEmailServer
    dbStatus,   \* the flag set by ConnectDB and the connection's listeners
    startup,    \* where startServer is, or what became of the process
    connecting, \* ConnectDB calls awaiting mongoose.connect, startup's apart
    timers,     \* pending setTimeout(ConnectDB) timers: seconds left, ascending
    port,       \* the argument of the latest tryPort call
    exitCode,   \* the code of process.exit, 0 while the process runs
    link,       \* the driver's connection: closed until first established
    reachable,  \* whether the store accepts connections
    PORT,       \* the configured port
    inUse,      \* the ports other processes are bound to
    ev          \* what the process did last outside the request handlers

web  == <<store, nextId, now, pc, req, res, mail, last, origin, pristine>>
life == <<emailServerStatus, dbStatus, startup, connecting, timers, port,
          exitCode, link, reachable, PORT, inUse, ev>>
vars == <<web, life>>

NoReq == [kind |-> "none", id |-> BadId, body |-> EmptyObj, unset |-> {}]
Request(kind, id, body, unset) ==
    [kind |-> kind, id |-> id, body |-> body, unset |-> unset]

InitWeb ==
    /\ store = [x \in {} |-> 0]
    /\ nextId = 0
    /\ now = 0
    /\ pc = [r \in Conns |-> "idle"]
    /\ req = [r \in Conns |-> NoReq]
    /\ res = [r \in Conns |-> NoRes]
    /\ mail = [r \in Conns |-> NoMail]
    /\ last = [req |-> NoReq, res |-> NoRes, mail |-> NoMail]
    /\ origin = [x \in {} |-> EmptyObj]
    /\ pristine = {}

\* startServer() has been called and awaits verifyEmailServer()
LifeStart ==
    /\ emailServerStatus = FALSE
    /\ dbStatus = FALSE
    /\ startup = "verifying"
    /\ connecting = 0
    /\ timers = <<>>
    /\ port = 0
    /\ exitCode = 0
    /\ link = "closed"
    /\ ev = NoEvent

\* no PORT in the environment, no port taken, the store up
Init ==
    /\ InitWeb
    /\ LifeStart
    /\ reachable = TRUE
    /\ PORT = DefaultPort
    /\ inUse = {}

\* the environments startup is examined in
LifeInit ==
    /\ InitWeb
    /\ LifeStart
    /\ reachable \in BOOLEAN
    /\ PORT \in ProbedPorts
    /\ inUse \in SUBSET ProbedPorts

\* a segment of the handler of request q on connection r ends with response
\* rs, mail calls m and the handler at position at ("idle": it has returned)
Step(r, q, rs, m, at) ==
    /\ pc' = [pc EXCEPT ![r] = at]
    /\ IF at = "idle"
          THEN /\ req' = [req EXCEPT ![r] = NoReq]
               /\ res' = [res EXCEPT ![r] = NoRes]
               /\ mail' = [mail EXCEPT ![r] = NoMail]
               /\ last' = [req |-> q, res |-> rs, mail |-> m]
          ELSE /\ req' = [req EXCEPT ![r] = q]
               /\ res' = [res EXCEPT ![r] = rs]
               /\ mail' = [mail EXCEPT ![r] = m]
               /\ last' = last

Tick ==
    /\ now < MaxTime
    /\ now' = now + 1
    /\ UNCHANGED <<store, nextId, pc, req, res, mail, last, origin, pristine>>
    /\ UNCHANGED life

\* GET /api/blogs
GetBlogs(r, queries) ==
    /\ pc[r] = "idle"
    /\ \E query \in queries, down \in BOOLEAN :
        \E out \in getBlogs(store, query, down) :
            /\ Step(r, Request("getBlogs", BadId, query, {}), out.res, NoMail, out.pc)
            /\ store' = out.store
    /\ UNCHANGED <<nextId, now, origin, pristine>>
    /\ UNCHANGED life

\* GET /api/blog/:id
GetBlog(r, ids) ==
    /\ pc[r] = "idle"
    /\ \E id \in ids, down \in BOOLEAN :
        LET out == getBlog(store, id, down) IN
        /\ Step(r, Request("getBlog", id, EmptyObj, {}), out.res, NoMail, out.pc)
        /\ store' = out.store
    /\ UNCHANGED <<nextId, now, origin, pristine>>
    /\ UNCHANGED life

\* POST /api/blog/new (at most max records are ever inserted)
CreateBlog(r, bodies, max) ==
    /\ pc[r] = "idle"
    /\ \E body \in bodies, down \in BOOLEAN :
        LET out == createBlog(store, nextId, now, body, down) IN
        /\ out.store # store => nextId < max
        /\ Step(r, Request("createBlog", BadId, body, {}), out.res, NoMail, out.pc)
        /\ store' = out.store
        /\ IF out.store # store
              THEN /\ nextId' = nextId + 1
                   /\ origin' = (ObjectId(nextId + 1) :> body) @@ origin
                   /\ pristine' = pristine \cup {ObjectId(nextId + 1)}
              ELSE UNCHANGED <<nextId, origin, pristine>>
    /\ UNCHANGED now
    /\ UNCHANGED life

\* PUT /api/blog/:id, up to the result of the existence check
UpdateBlog(r, ids, bodies) ==
    /\ pc[r] = "idle"
    /\ \E id \in ids, body \in bodies, down \in BOOLEAN :
        LET out == findFirst(store, id, down, "updating") IN
        /\ Step(r, Request("updateBlog", id, body.set, body.unset), out.res,
                NoMail, out.pc)
        /\ store' = out.store
    /\ UNCHANGED <<nextId, now, origin, pristine>>
    /\ UNCHANGED life

\* PUT /api/blog/:id, from the result of findByIdAndUpdate on
UpdateBlogWrite(r) ==
    /\ pc[r] = "updating"
    /\ \E down \in BOOLEAN :
        LET out == updateBlogWrite(res[r], store, now, req[r].id,
                       [set |-> req[r].body, unset |-> req[r].unset], down) IN
        /\ Step(r, req[r], out.res, NoMail, out.pc)
        /\ store' = out.store
        /\ pristine' = IF out.res.status = 200 THEN pristine \ {req[r].id} ELSE pristine
    /\ UNCHANGED <<nextId, now, origin>>
    /\ UNCHANGED life

\* DELETE /api/blog/:id, up to the result of the existence check
DeleteBlog(r, ids) ==
    /\ pc[r] = "idle"
    /\ \E id \in ids, down \in BOOLEAN :
        LET out == findFirst(store, id, down, "deleting") IN
        /\ Step(r, Request("deleteBlog", id, EmptyObj, {}), out.res, NoMail, out.pc)
        /\ store' = out.store
    /\ UNCHANGED <<nextId, now, origin, pristine>>
    /\ UNCHANGED life

\* DELETE /api/blog/:id, from the result of deleteOne on
DeleteBlogWrite(r) ==
    /\ pc[r] = "deleting"
    /\ \E down \in BOOLEAN :
        LET out == deleteBlogWrite(res[r], store, req[r].id, down) IN
        /\ Step(r, req[r], out.res, NoMail, out.pc)
        /\ store' = out.store
        /\ pristine' = IF out.res.status = 200 THEN pristine \ {req[r].id} ELSE pristine
    /\ UNCHANGED <<nextId, now, origin>>
    /\ UNCHANGED life

\* POST /api/contact, up to the first sendMail
SubmitContactForm(r, bodies) ==
    /\ pc[r] = "idle"
    /\ \E body \in bodies :
        LET out == submitContactForm(body) IN
        Step(r, Request("submitContactForm", BadId, body, {}), out.res, out.mail, out.pc)
    /\ UNCHANGED <<store, nextId, now, origin, pristine>>
    /\ UNCHANGED life

\* the user-confirmation sendMail settles
UserMailSettled(r) ==
    /\ pc[r] = "sendingUser"
    /\ \E ok \in BOOLEAN :
        LET out == userMailSettled(res[r], mail[r], ok) IN
        Step(r, req[r], out.res, out.mail, out.pc)
    /\ UNCHANGED <<store, nextId, now, origin, pristine>>
    /\ UNCHANGED life

\* the admin-notification sendMail settles
AdminMailSettled(r) ==
    /\ pc[r] = "sendingAdmin"
    /\ \E ok \in BOOLEAN :
        LET out == adminMailSettled(res[r], mail[r], ok) IN
        Step(r, req[r], out.res, out.mail, out.pc)
    /\ UNCHANGED <<store, nextId, now, origin, pristine>>
    /\ UNCHANGED life

\* the process runs until process.exit
Running == startup # "exited"

\* the connect attempts in flight or scheduled
Chains ==
    connecting + Len(timers) + (IF startup = "connecting" THEN 1 ELSE 0)

\* startServer: verifyEmailServer() settles and ConnectDB() is called
VerifySettles ==
    /\ startup = "verifying"
    /\ \E ok \in BOOLEAN :
        LET out == verifyEmailServer(ok) IN
        /\ emailServerStatus' = out.emailServerStatus
        /\ ev' = Event("verify", out.returns, NoStatus)
    /\ startup' = "connecting"
    /\ UNCHANGED <<dbStatus, connecting, timers, port, exitCode, link,
                   reachable, PORT, inUse>>
    /\ UNCHANGED web

\* (variant: tryPort is called whatever ConnectDB() returned)
StartupConnectSettlesUnchecked ==
    /\ startup = "connecting"
    /\ LET out == ConnectDB(reachable, timers) IN
        /\ dbStatus' = out.dbStatus
        /\ timers' = out.timers
        /\ ev' = Event("connect", out.returns, NoStatus)
        /\ link' = IF out.returns THEN "connected" ELSE link
    /\ startup' = "binding"
    /\ port' = initialPort(PORT)
    /\ UNCHANGED <<emailServerStatus, connecting, exitCode, reachable, PORT, inUse>>
    /\ UNCHANGED web

\* startServer: its ConnectDB() settles; on success tryPort is called with
\* the initial port, on failure server start is put off
StartupConnectSettles ==
    /\ startup = "connecting"
    /\ LET out == ConnectDB(reachable, timers) IN
        /\ dbStatus' = out.dbStatus
        /\ timers' = out.timers
        /\ ev' = Event("connect", out.returns, NoStatus)
        /\ IF out.returns
              THEN /\ startup' = "binding"
                   /\ port' = initialPort(PORT)
                   /\ link' = "connected"
              ELSE /\ startup' = "delayed"
                   /\ UNCHANGED <<port, link>>
    /\ UNCHANGED <<emailServerStatus, connecting, exitCode, reachable, PORT, inUse>>
    /\ UNCHANGED web

\* a ConnectDB() called by a timer or by the disconnected listener settles
ConnectSettles ==
    /\ Running
    /\ connecting > 0
    /\ LET out == ConnectDB(reachable, timers) IN
        /\ dbStatus' = out.dbStatus
        /\ timers' = out.timers
        /\ ev' = Event("connect", out.returns, NoStatus)
        /\ link' = IF out.returns THEN "connected" ELSE link
    /\ connecting' = connecting - 1
    /\ UNCHANGED <<emailServerStatus, startup, port, exitCode, reachable,
                   PORT, inUse>>
    /\ UNCHANGED web

\* a second passes with no timer due
Elapse ==
    /\ Running
    /\ timers # <<>>
    /\ \A i \in DOMAIN timers : timers[i] > 0
    /\ timers' = [i \in DOMAIN timers |-> timers[i] - 1]
    /\ ev' = Event("elapse", TRUE, NoStatus)
    /\ UNCHANGED <<emailServerStatus, dbStatus, startup, connecting, port,
                   exitCode, link, reachable, PORT, inUse>>
    /\ UNCHANGED web

\* a retry timer is due: ConnectDB is called
TimerFires ==
    /\ Running
    /\ timers # <<>>
    /\ Head(timers) = 0
    /\ timers' = Tail(timers)
    /\ connecting' = connecting + 1
    /\ ev' = Event("timer", TRUE, NoStatus)
    /\ UNCHANGED <<emailServerStatus, dbStatus, startup, port, exitCode, link,
                   reachable, PORT, inUse>>
    /\ UNCHANGED web

\* (variant: the disconnected listener only clears the flag)
DriverDisconnectedNoRetry ==
    /\ Running
    /\ link = "connected"
    /\ Chains < MaxChains
    /\ link' = "disconnected"
    /\ dbStatus' = FALSE
    /\ ev' = Event("disconnected", TRUE, NoStatus)
    /\ UNCHANGED <<emailServerStatus, startup, connecting, timers, port,
                   exitCode, reachable, PORT, inUse>>
    /\ UNCHANGED web

\* mongoose.connection.on("disconnected"): the driver lost its connection
DriverDisconnected ==
    /\ Running
    /\ link = "connected"
    /\ Chains < MaxChains
    /\ link' = "disconnected"
    /\ dbStatus' = FALSE
    /\ connecting' = connecting + 1
    /\ ev' = Event("disconnected", TRUE, NoStatus)
    /\ UNCHANGED <<emailServerStatus, startup, timers, port, exitCode,
                   reachable, PORT, inUse>>
    /\ UNCHANGED web

\* mongoose.connection.on("error"): the driver reports an error on its
\* connection
DriverError ==
    /\ Running
    /\ link = "connected"
    /\ dbStatus' = FALSE
    /\ ev' = Event("error", TRUE, NoStatus)
    /\ UNCHANGED <<emailServerStatus, startup, connecting, timers, port,
                   exitCode, link, reachable, PORT, inUse>>
    /\ UNCHANGED web

\* mongoose.connection.on("connected"): the driver re-established by
\* itself the connection it had lost
DriverConnected ==
    /\ Running
    /\ link = "disconnected"
    /\ reachable
    /\ link' = "connected"
    /\ dbStatus' = TRUE
    /\ ev' = Event("connected", TRUE, NoStatus)
    /\ UNCHANGED <<emailServerStatus, startup, connecting, timers, port,
                   exitCode, reachable, PORT, inUse>>
    /\ UNCHANGED web

\* the store goes down or comes back
StoreChanges ==
    /\ Running
    /\ reachable' = ~reachable
    /\ ev' = Event("store", reachable', NoStatus)
    /\ UNCHANGED <<emailServerStatus, dbStatus, startup, connecting, timers,
                   port, exitCode, link, PORT, inUse>>
    /\ UNCHANGED web

\* app.listen(port) of the latest tryPort call settles
ListenSettles ==
    /\ startup = "binding"
    /\ \E outcome \in ListenOutcomes(port, inUse) :
        LET out == tryPort(port, outcome) IN
        /\ startup' = out.startup
        /\ port' = out.port
        /\ exitCode' = out.exitCode
        /\ ev' = Event(outcome, outcome = "listening", NoStatus)
    /\ UNCHANGED <<emailServerStatus, dbStatus, connecting, timers, link,
                   reachable, PORT, inUse>>
    /\ UNCHANGED web

\* GET /api/status
GetStatus ==
    /\ startup = "listening"
    /\ ev' = Event("status", TRUE, statusReport(dbStatus, emailServerStatus, PORT))
    /\ UNCHANGED <<emailServerStatus, dbStatus, startup, connecting, timers,
                   port, exitCode, link, reachable, PORT, inUse>>
    /\ UNCHANGED web

\* the single-record operations under every interleaving
BlogNext ==
    \/ \E r \in Conns : GetBlog(r, ReqIds(MaxBlogs))
    \/ \E r \in Conns : CreateBlog(r, CreateBodies, MaxBlogs)
    \/ \E r \in Conns : UpdateBlog(r, ReqIds(MaxBlogs), UpdateBodies)
    \/ \E r \in Conns : UpdateBlogWrite(r)
    \/ \E r \in Conns : DeleteBlog(r, ReqIds(MaxBlogs))
    \/ \E r \in Conns : DeleteBlogWrite(r)

\* listing, over stores of records that differ in creation time, status
\* and category
ListNext ==
    \/ Tick
    \/ \E r \in Conns : GetBlogs(r, Queries)
    \/ \E r \in Conns : CreateBlog(r, ListedBodies, MaxListed)
    \/ \E r \in Conns : DeleteBlog(r, ReqIds(MaxListed))
    \/ \E r \in Conns : DeleteBlogWrite(r)

ContactNext ==
    \/ \E r \in Conns : SubmitContactForm(r, ContactBodies)
    \/ \E r \in Conns : UserMailSettled(r)
    \/ \E r \in Conns : AdminMailSettled(r)

\* every handler, with a request for each of its paths
Next ==
    \/ \E r \in Conns : GetBlogs(r, {EmptyObj})
    \/ \E r \in Conns : GetBlog(r, ReqIds(MaxBlogs))
    \/ \E r \in Conns : CreateBlog(r, PathBodies, MaxBlogs)
    \/ \E r \in Conns : UpdateBlog(r, ReqIds(MaxBlogs), PathUpdates)
    \/ \E r \in Conns : UpdateBlogWrite(r)
    \/ \E r \in Conns : DeleteBlog(r, ReqIds(MaxBlogs))
    \/ \E r \in Conns : DeleteBlogWrite(r)
    \/ \E r \in Conns : SubmitContactForm(r, {FullContact, EmptyObj})
    \/ \E r \in Conns : UserMailSettled(r)
    \/ \E r \in Conns : AdminMailSettled(r)

Spec        == Init /\ [][Next]_vars
\* the segment of the handler on connection r that runs when its awaited
\* store or mail-relay call settles
Continue(r) ==
    \/ UpdateBlogWrite(r)
    \/ DeleteBlogWrite(r)
    \/ UserMailSettled(r)
    \/ AdminMailSettled(r)
\* startup, store connectivity and the status endpoint
LifeNext ==
    \/ VerifySettles
    \/ StartupConnectSettles
    \/ ConnectSettles
    \/ Elapse
    \/ TimerFires
    \/ DriverDisconnected
    \/ DriverError
    \/ DriverConnected
    \/ StoreChanges
    \/ ListenSettles
    \/ GetStatus

SpecLife    == LifeInit /\ [][LifeNext]_vars
\* an awaited verify, connect or listen call settles (the driver gives up
\* after serverSelectionTimeoutMS), time passes and a due timer runs
Progress ==
    /\ WF_vars(VerifySettles)
    /\ WF_vars(StartupConnectSettles)
    /\ WF_vars(ConnectSettles)
    /\ WF_vars(Elapse)
    /\ WF_vars(TimerFires)
    /\ WF_vars(ListenSettles)
SpecLifeFair == Init /\ [][LifeNext]_vars /\ Progress
SpecBlog    == Init /\ [][BlogNext]_vars
SpecList    == Init /\ [][ListNext]_vars
SpecContact == Init /\ [][ContactNext]_vars

(***************************************************************************)
(* Properties                                                              *)
(***************************************************************************)
Completed(kind) == last.req.kind = kind
Present(body, k) == k \in DOMAIN body /\ body[k] # EmptyStr
Sent(m, to, ok) == \E i \in DOMAIN m.sends : m.sends[i] = [to |-> to, ok |-> ok]
ContactValidated == \A k \in {"name", "email", "message"} : Present(last.req.body, k)

\* C1: a contact submission that passes field validation is answered with
\* the success envelope (200) exactly when its admin-notification send
\* succeeded, whatever the user-confirmation send did; when the admin send
\* failed the answer is an error (5xx) written by the error middleware.
C1_AdminSendDecides ==
    (Completed("submitContactForm") /\ ContactValidated) =>
        /\ (last.res.status = 200 /\ last.res.success) <=> Sent(last.mail, "admin", TRUE)
        /\ Sent(last.mail, "admin", TRUE) \/ Sent(last.mail, "admin", FALSE)
        /\ Sent(last.mail, "admin", FALSE) =>
              /\ last.res.status \in 500..599
              /\ ~last.res.success
              /\ last.res.error = "MailTransportError"

C1_Witness ==
    /\ Completed("submitContactForm")
    /\ Sent(last.mail, "user", FALSE)
    /\ Sent(last.mail, "admin", TRUE)
    /\ last.res.status = 200

\* C2: a contact submission without name, email or message is rejected with
\* 400 MissingFields and makes no mail-relay call (no transporter, no
\* sendMail); a submission that lacks only phone is not rejected; and a
\* request that has touched the mail relay has all three required fields.
C2_RejectedBeforeMail ==
    /\ (Completed("submitContactForm")
          /\ \E k \in {"name", "email", "message"} : k \notin DOMAIN last.req.body) =>
            /\ last.res.status = 400
            /\ last.res.error = ContactMissingMsg
            /\ ~last.mail.transport
            /\ last.mail.sends = <<>>
    /\ (Completed("submitContactForm") /\ ContactValidated
          /\ "phone" \notin DOMAIN last.req.body) => last.res.status # 400
    /\ \A r \in Conns :
          (mail[r].transport \/ mail[r].sends # <<>>) =>
              \A k \in {"name", "email", "message"} : Present(req[r].body, k)

C2_Witness ==
    /\ Completed("submitContactForm")
    /\ DOMAIN last.req.body = {"name", "email", "phone"}
    /\ last.res.status = 400
    /\ last.mail = NoMail

ById == {"getBlog", "updateBlog", "deleteBlog"}
\* this step completes an exchange
Answered == last' # last
\* ... and it is the first segment of its handler: the request arrived and
\* was answered in one step
AnsweredAtOnce == last' # last /\ pc' = pc
\* the store failed the request (the error middleware answered 500)
StoreFailed(x) == x.res.status = 500

\* C3: Get, Update and Delete of a malformed identifier answer 400
\* 'Invalid blog ID format', never 404, and leave the stored records as
\* they were.
C3_MalformedIdIsInvalid ==
    /\ []((last.req.kind \in ById /\ ~last.req.id.wf) =>
            /\ last.res.status = 400
            /\ last.res.error = InvalidIdMsg
            /\ ~last.res.success)
    /\ [][(Answered /\ last'.req.kind \in ById /\ ~last'.req.id.wf) =>
            store' = store]_vars

C3_Witness ==
    /\ last.req.kind = "deleteBlog"
    /\ ~last.req.id.wf
    /\ last.res.status = 400
    /\ DOMAIN store # {}

\* C4: Get, Update and Delete of a well-formed identifier that has no record
\* when the request is made (never created, or removed by an earlier
\* Delete) answer 404 'Blog not found' when the store answers the lookup,
\* leave the stored records as they were, and do not go on to their write.
C4_AbsentIsNotFound ==
    [][/\ (AnsweredAtOnce /\ last'.req.kind \in ById /\ last'.req.id.wf
             /\ last'.req.id \notin DOMAIN store /\ ~StoreFailed(last')) =>
            /\ last'.res.status = 404
            /\ last'.res.error = NotFoundMsg
            /\ store' = store
       /\ \A r \in Conns :
            (pc[r] = "idle" /\ pc'[r] \in {"updating", "deleting"}) =>
                req'[r].id \in DOMAIN store]_vars

\* a Delete of an identifier that was created and is gone answers 404
C4_Witness ==
    /\ last.req.kind = "deleteBlog"
    /\ last.req.id \in DOMAIN origin
    /\ last.req.id \notin DOMAIN store
    /\ last.res.status = 404

\* C5 as stated: every Create whose status value is outside {published,
\* draft} is answered 400 with the InvalidStatus message.
C5_Original ==
    (last.req.kind = "createBlog" /\ "status" \in DOMAIN last.req.body
        /\ last.req.body["status"] \notin {Published, Draft}) =>
            /\ last.res.status = 400
            /\ last.res.error = InvalidStatusMsg

\* C5 as amended: a Create whose status value is outside {published, draft}
\* is answered 400 and persists nothing; the error is InvalidStatus when
\* the status is not empty and title, description, category and imageUrl
\* are all present and not empty, and MissingFields otherwise.
C5_BadStatusRejected ==
    /\ []((last.req.kind = "createBlog" /\ "status" \in DOMAIN last.req.body
            /\ last.req.body["status"] \notin {Published, Draft}) =>
              /\ last.res.status = 400
              /\ ~last.res.success
              /\ last.res.error =
                    IF \A p \in Paths : Present(last.req.body, p)
                        THEN InvalidStatusMsg ELSE MissingFieldsMsg)
    /\ [][(Answered /\ last'.req.kind = "createBlog"
            /\ "status" \in DOMAIN last'.req.body
            /\ last'.req.body["status"] \notin {Published, Draft}) =>
              store' = store]_vars

C5_Witness ==
    /\ last.req.kind = "createBlog"
    /\ last.req.body = [ValidBlog EXCEPT !.status = Archived]
    /\ last.res.error = InvalidStatusMsg
    /\ DOMAIN store # {}

\* the string without its leading and trailing whitespace
Stripped(s) == [lead |-> 0, core |-> s.core, len |-> s.len, trail |-> 0]

\* a Get of an identifier whose Create succeeded, with no Update or Delete
\* write on it since, that the store answers
GetOfPristine == Answered /\ last'.req.kind = "getBlog"
                    /\ last'.req.id \in pristine /\ ~StoreFailed(last')

\* C6 as stated: after a successful Create, a Get of the returned id with no
\* Update or Delete of it in between answers 200 with a record whose title,
\* description, category, imageUrl and status equal the submitted input.
C6_Original ==
    [][GetOfPristine =>
        /\ last'.res.status = 200
        /\ last'.res.shape = "doc"
        /\ \A p \in Paths :
              last'.res.docs[1].f[p] = origin[last'.req.id][p]]_vars

\* C6 as amended: ... a record whose status equals the submitted status and
\* whose title, description, category and imageUrl equal the submitted
\* values with leading and trailing whitespace removed, under the requested
\* id and with both timestamps.
C6_GetReturnsTrimmedInput ==
    [][GetOfPristine =>
        /\ last'.res.status = 200
        /\ last'.res.success
        /\ last'.res.shape = "doc"
        /\ Len(last'.res.docs) = 1
        /\ last'.res.docs[1].id = last'.req.id
        /\ last'.res.docs[1].createdAt \in 0..now
        /\ last'.res.docs[1].updatedAt \in 0..now
        /\ DOMAIN last'.res.docs[1].f = Paths
        /\ last'.res.docs[1].f["status"] = origin[last'.req.id]["status"]
        /\ \A p \in Paths \ {"status"} :
              last'.res.docs[1].f[p] = Stripped(origin[last'.req.id][p])]_vars

C6_Witness ==
    /\ last.req.kind = "getBlog"
    /\ last.req.id \in pristine
    /\ origin[last.req.id] = PaddedBlog
    /\ last.res.status = 200
    /\ last.res.docs[1].f["title"] = Str("A", 1)

\* C7 as stated: every stored record has status published or draft.
C7_StatusInEnum ==
    \A id \in DOMAIN store :
        /\ "status" \in DOMAIN store[id].f
        /\ store[id].f["status"] \in {Published, Draft}

\* C8 as stated: a 200 answer to an Update carries the updated record of
\* the addressed id, never an absent (null) one.
C8_UpdateAnswersRecord ==
    (last.req.kind = "updateBlog" /\ last.res.status = 200) =>
        /\ last.res.shape = "doc"
        /\ Len(last.res.docs) = 1
        /\ last.res.docs[1].id = last.req.id

\* C9: every request ends with exactly one response: a handler that has
\* returned (on a success, a locally classified error or an exception
\* forwarded to the error middleware) has written exactly one response,
\* and a handler that has not returned has written none and is awaiting a
\* call whose settling, either way, runs its next segment.
C9_ExactlyOneResponse ==
    /\ last.req.kind # "none" => last.res.sent = 1
    /\ \A r \in Conns :
          pc[r] # "idle" => (res[r].sent = 0 /\ ENABLED Continue(r))

\* an Update answered by the error middleware after its existence check
C9_Witness ==
    /\ last.req.kind = "updateBlog"
    /\ last.req.id \in DOMAIN store
    /\ last.res.status = 500
    /\ last.res.sent = 1
    /\ \E r \in Conns : pc[r] = "sendingAdmin"

\* the query fields that constrain the listing: those with a non-empty value
Supplied(query) == {p \in DOMAIN query : query[p] # EmptyStr}

\* C10: a List that the store answers is a 200 success whose records are
\* exactly the stored records equal to the query on every supplied (non-
\* empty) status and category field, all of them when none is supplied,
\* each once, ordered by descending creation time, with count the number
\* of records returned.
C10_ListFiltersAndSorts ==
    [][(Answered /\ last'.req.kind = "getBlogs" /\ ~StoreFailed(last')) =>
        LET q    == last'.req.body
            docs == last'.res.docs
        IN  /\ last'.res.status = 200
            /\ last'.res.success
            /\ last'.res.shape = "list"
            /\ last'.res.count = Len(docs)
            /\ {docs[i].id : i \in DOMAIN docs} =
                  {id \in DOMAIN store :
                      \A p \in Supplied(q) :
                          p \in DOMAIN store[id].f /\ store[id].f[p] = q[p]}
            /\ \A i, j \in DOMAIN docs : i # j => docs[i].id # docs[j].id
            /\ \A i \in DOMAIN docs :
                  /\ docs[i].f = store[docs[i].id].f
                  /\ docs[i].createdAt = store[docs[i].id].createdAt
            /\ \A i, j \in DOMAIN docs :
                  i < j => docs[i].createdAt >= docs[j].createdAt
            /\ store' = store]_vars

\* a draft listing that leaves a published record out, and a listing of
\* two records created at different times
C10_Witness ==
    /\ last.req.kind = "getBlogs"
    /\ last.req.body = [status |-> Draft]
    /\ last.res.count = 1
    /\ Cardinality(DOMAIN store) = 2
    /\ \E a, b \in DOMAIN store : store[a].createdAt < store[b].createdAt

(***************************************************************************)
(* Properties of startup, store connectivity and the status endpoint       *)
(***************************************************************************)
\* the program's state apart from the record of its last step
program == <<web, emailServerStatus, dbStatus, startup, connecting, timers,
             port, exitCode>>
Did(kind) == ev'.kind = kind

\* C11: a status response reports the current dbStatus and
\* emailServerStatus and the port the server is listening on, also after a
\* port fallback, and handling the request changes no state.
C11_StatusIsSnapshot ==
    [][Did("status") =>
        /\ ev'.report.success
        /\ ev'.report.status = "running"
        /\ ev'.report.connected = dbStatus
        /\ ev'.report.ready = emailServerStatus
        /\ ev'.report.port = port
        /\ UNCHANGED program]_vars

AttemptFailed    == ev.kind = "connect" /\ ~ev.ok
AttemptSucceeded == ev.kind = "connect" /\ ev.ok

\* C12: every failed connection attempt sets dbStatus to false and
\* schedules exactly one further attempt, RetryDelay later and however many
\* attempts have failed before; a scheduled attempt is made when its delay
\* has run out; and if the store at last stays reachable, every failed
\* attempt is followed, while the process lives, by an attempt that succeeds
\* and sets dbStatus to true.
C12_RetryUntilConnected ==
    /\ [][(Did("connect") /\ ~ev'.ok) =>
            /\ ~dbStatus'
            /\ timers' = Append(timers, RetryDelay)]_vars
    /\ [][Did("timer") =>
            /\ Head(timers) = 0
            /\ timers' = Tail(timers)
            /\ connecting' = connecting + 1]_vars
    /\ (<>[]reachable) =>
            (AttemptFailed ~> ((AttemptSucceeded /\ dbStatus) \/ ~Running))

\* an attempt made by a retry timer succeeded after startup's attempt failed
C12_Witness ==
    /\ startup = "delayed"
    /\ AttemptSucceeded
    /\ dbStatus
    /\ timers = <<>>

\* C13: when startup's connection attempt has failed and a later retry of
\* the connect routine succeeds, the server goes on to bind a port: from
\* then on it eventually is binding or listening (or has exited on a bind
\* error).
C13_DelayedStartBinds ==
    (startup = "delayed" /\ AttemptSucceeded)
        ~> (startup \in {"binding", "listening", "exited"})

\* C14: startup goes from mail verification to the store connection to the
\* port bind.  Whatever the verification's outcome, the connection attempt
\* follows it, and a failed verification leaves emailServerStatus false for
\* good; the bind is attempted exactly when startup's connection attempt
\* has succeeded, from the initial port, and never otherwise.
C14_StartupOrder ==
    /\ [][startup' # startup =>
            \/ /\ startup = "verifying"
               /\ Did("verify")
               /\ startup' = "connecting"
               /\ emailServerStatus' = ev'.ok
               /\ Chains' = 1
            \/ /\ startup = "connecting"
               /\ Did("connect")
               /\ IF ev'.ok THEN startup' = "binding" /\ port' = initialPort(PORT)
                            ELSE startup' = "delayed"
            \/ /\ startup = "binding"
               /\ startup' \in {"listening", "exited"}]_vars
    /\ [][startup # "verifying" => emailServerStatus' = emailServerStatus]_vars

\* the server listens although the mail verification failed
C14_Witness ==
    /\ startup = "listening"
    /\ ~emailServerStatus
    /\ link = "connected"

\* C15 as stated: a disconnected event or an error event raised while the
\* store is connected sets dbStatus to false and calls the connect routine
\* at once; a connected event sets dbStatus to true.
C15_Original ==
    /\ [][(link = "connected" /\ (Did("disconnected") \/ Did("error"))) =>
            /\ ~dbStatus'
            /\ connecting' = connecting + 1]_vars
    /\ [][Did("connected") => dbStatus']_vars

\* C15, amended: a disconnected event raised while the store is connected
\* sets dbStatus to false and calls the connect routine at once, with no
\* timer; an error event sets dbStatus to false and neither calls nor
\* schedules the connect routine; a connected event sets dbStatus to true.
C15_EventsSetFlag ==
    /\ [][(link = "connected" /\ Did("disconnected")) =>
            /\ ~dbStatus'
            /\ connecting' = connecting + 1
            /\ timers' = timers]_vars
    /\ [][(link = "connected" /\ Did("error")) =>
            /\ ~dbStatus'
            /\ connecting' = connecting
            /\ timers' = timers]_vars
    /\ [][Did("connected") => dbStatus']_vars

\* an error event while connected has cleared the flag and no attempt is
\* in flight or scheduled
C15_Witness ==
    /\ ev.kind = "error"
    /\ link = "connected"
    /\ ~dbStatus
    /\ Chains = 0

\* the free ports from the initial port up
FreePorts == {q \in initialPort(PORT)..MaxPort : q \notin inUse}
Smallest(ports) == CHOOSE q \in ports : \A r \in ports : q <= r

\* C16: the bind probes upward from the initial port p: an address-in-use
\* failure below the last port moves to the next port; a server that
\* listens does so on the smallest free port in p..MaxPort; an
\* address-in-use failure on the last port, which means every port from p
\* up is in use, and any other bind failure end the process with exit code
\* 1; and no port outside p..MaxPort is tried.
C16_LinearProbe ==
    /\ [](startup \in {"binding", "listening", "exited"} =>
            /\ initialPort(PORT) <= port /\ port <= MaxPort
            /\ \A q \in initialPort(PORT)..(port - 1) : q \in inUse)
    /\ [](startup = "listening" =>
            /\ FreePorts # {}
            /\ port = Smallest(FreePorts)
            /\ exitCode = 0)
    /\ [](startup = "exited" =>
            /\ exitCode = 1
            /\ \/ ev.kind = "EADDRINUSE" /\ FreePorts = {}
               \/ ev.kind = "EACCES")
    /\ [][Did("EADDRINUSE") =>
            IF port < MaxPort
                THEN startup' = "binding" /\ port' = port + 1 /\ exitCode' = 0
                ELSE startup' = "exited" /\ exitCode' = 1]_vars
    /\ [][Did("EACCES") => startup' = "exited" /\ exitCode' = 1]_vars
    /\ [][(startup = "binding" /\ FreePorts = {}) => startup' # "listening"]_vars

\* the server listens on the last port, having found the ports from the
\* configured one up in use
C16_Witness ==
    /\ startup = "listening"
    /\ PORT < MaxPort
    /\ port = MaxPort

C18_SingleRetryChain == Chains <= 1

=============================================================================
